---- MODULE Spec2Model ----
(***************************************************************************)
(* A model of the AIMNet2 descriptor core (aimnet/aev.py: AEVSV, ConvSV,   *)
(* _init_ahg, _init_ahg_one) and of the training driver around it          *)
(* (aimnet/train/train_mp.py).                                             *)
(*                                                                         *)
(* Numbers.  Tensors of torch.float are modelled as integers in fixed      *)
(* point with resolution 1/Scale: the integer v stands for v / Scale.      *)
(* Every product and quotient is rounded back to that resolution, as a     *)
(* floating point operation rounds its result, and the rounding is         *)
(* symmetric in the sign (Div truncates towards zero).  Lengths (d_ij,     *)
(* r_ij, rc, rmin, shifts) are in Angstrom, so 250 stands for 2.5 A.       *)
(*                                                                         *)
(* An optional argument (Python's None default) is a sequence: << >> for   *)
(* None, <<v>> for a supplied v.                                           *)
(***************************************************************************)
EXTENDS Integers, Sequences, FiniteSets, TLC

VARIABLES
    aev,        \* the AEVSV instance, or NoInstance
    ctorArgs,   \* the arguments of the last AEVSV(...) call
    ctorErr,    \* "" or the exception the last AEVSV(...) call raised
    nbrs,       \* the neighbor slots of the last _calc_aev call (r_ij, d_ij, mask)
    out,        \* what the last _calc_aev call returned (u_ij, gs, gv)
    ini,        \* the ConvSV(...) call in progress: the locals of _init_ahg
    conv,       \* the ConvSV instance, or NoConv
    fwd,        \* the last ConvSV.forward call: its arguments and its result
    train,      \* the run(...) call in progress: its position and its parameters
    maps,       \* the mappings handed to AEVSV.forward, by object
    calls       \* the forward calls in progress: position, arguments, locals

aevVars == <<aev, ctorArgs, ctorErr, nbrs, out>>
vars == <<aev, ctorArgs, ctorErr, nbrs, out, ini, conv, fwd, train, maps, calls>>

----------------------------------------------------------------------------
(* Arithmetic *)

\* resolution of the fixed point numbers standing for torch.float values
Scale == 100

\* largest number of neighbor slots of one atom in a _calc_aev call
MaxNbr == 2

None == << >>
Some(v) == <<v>>
IsNone(o) == o = << >>
Val(o) == o[1]

Abs(x) == IF x < 0 THEN -x ELSE x

\* a / b rounded towards zero (b > 0): the rounding of a float quotient does
\* not depend on the sign of the numerator
Div(a, b) == IF a >= 0 THEN a \div b ELSE -((-a) \div b)

\* product of two fixed point numbers
Mul(a, b) == Div(a * b, Scale)

\* cos(pi * num / den) for 0 <= num <= den, in fixed point (Bhaskara's
\* rational approximation, exact at 0, 1/3, 1/2, 2/3 and 1)
CosPi(num, den) ==
    IF 2 * num <= den
    THEN Div(Scale * (den * den - 4 * num * num), den * den + num * num)
    ELSE LET c == den - num
         IN  -Div(Scale * (den * den - 4 * c * c), den * den + c * c)

\* exp(-x) for a fixed point x >= 0, in fixed point
ExpNeg(x) == Div(Scale * Scale, Scale + x + Div(x * x, 2 * Scale))

----------------------------------------------------------------------------
(* aimnet.ops / aimnet.nbops, as section 4.1 of the specification states   *)
(* them                                                                    *)

\* ops.cosine_cutoff: fc(d) = 0.5 * (cos(pi * d / rc) + 1) for d < rc, else 0
CosineCutoff(d, rc) ==
    IF d < rc THEN Div(Scale + CosPi(d, rc), 2) ELSE 0

\* ops.exp_expand: exp(-eta * (d - s_k)^2), one value per shift s_k
ExpExpand(d, shifts, eta) ==
    [k \in 1..Len(shifts) |->
        ExpNeg(Div(eta * (d - shifts[k]) * (d - shifts[k]), Scale * Scale))]

\* nbops.mask_ij_: the value x of a slot, replaced by fill where the slot is
\* not a valid neighbor
MaskIj(x, valid, fill) == IF valid THEN x ELSE fill

\* no ConvSV was constructed
NoConv ==
    [exists |-> FALSE, agh |-> << >>, do_vector |-> FALSE, nchannel |-> 0,
     d2features |-> FALSE, nshifts_s |-> 0, nshifts_v |-> 0, ncomb_v |-> 0]

\* no ConvSV.forward call was made
NoFwd == [called |-> FALSE]

\* run(...) was not called
TrainIdle ==
    [pc |-> "idle", op |-> "", cfg |-> << >>, wrapped |-> FALSE,
     data |-> << >>, requires_grad |-> << >>, grad |-> << >>, opt |-> << >>,
     iter |-> 0, evals |-> 0]

\* no ConvSV(...) call was made
IniIdle ==
    [pc |-> "idle", args |-> << >>, b |-> 0, n |-> 0, m |-> 0, y |-> << >>,
     idx |-> << >>, mask |-> << >>, pools |-> << >>, picks |-> << >>,
     ret |-> << >>]

----------------------------------------------------------------------------
(* AEVSV.__init__ and AEVSV._init_basis *)

NoInstance ==
    [exists |-> FALSE, rc_s |-> 0, eta_s |-> 0, shifts_s |-> << >>,
     rc_v |-> 0, eta_v |-> 0, shifts_v |-> << >>,
     dual_basis |-> FALSE, dmat_fill |-> 0]

\* torch.linspace(rmin, rc, nshifts + 1)[:nshifts]
Linspace(rmin, rc, nshifts) ==
    [k \in 1..nshifts |-> rmin + Div((k - 1) * (rc - rmin), nshifts)]

\* mutant of DefaultEta: the width is derived from the cutoff alone
DefaultEta_NoFloor(rc, rmin, nshifts) ==
    Div(Scale * (nshifts * Scale) * (nshifts * Scale), rc * rc)

\* eta = (1 / ((rc - rmin) / nshifts)) ** 2
DefaultEta(rc, rmin, nshifts) ==
    Div(Scale * (nshifts * Scale) * (nshifts * Scale),
        (rc - rmin) * (rc - rmin))

\* _init_basis: the three parameters it registers for one basis
InitBasis(rc, eta, nshifts, shifts, rmin) ==
    [rc     |-> rc,
     eta    |-> IF IsNone(eta) THEN DefaultEta(rc, rmin, nshifts) ELSE Val(eta),
     shifts |-> IF IsNone(shifts) THEN Linspace(rmin, rc, nshifts)
                ELSE Val(shifts)]

\* mutant of VectorArgsValid: the assertion on the cutoffs is missing
VectorArgsValid_NoCutoffCheck(a) == ~IsNone(a.nshifts_v)

\* the two assert statements of __init__, reached when rc_v is not None
VectorArgsValid(a) ==
    /\ Val(a.rc_v) <= a.rc_s
    /\ ~IsNone(a.nshifts_v)

\* mutant of NewAEVSV: without rc_v the vector basis is still built from the
\* vector arguments eta_v and shifts_v
NewAEVSV_VectorArgs(a) ==
    LET s == InitBasis(a.rc_s, a.eta_s, a.nshifts_s, a.shifts_s, a.rmin)
        v == IF ~IsNone(a.rc_v)
             THEN InitBasis(Val(a.rc_v), a.eta_v, Val(a.nshifts_v),
                            a.shifts_v, a.rmin)
             ELSE InitBasis(a.rc_s, a.eta_v, a.nshifts_s, a.shifts_v, a.rmin)
    IN  [exists |-> TRUE,
         rc_s |-> s.rc, eta_s |-> s.eta, shifts_s |-> s.shifts,
         rc_v |-> v.rc, eta_v |-> v.eta, shifts_v |-> v.shifts,
         dual_basis |-> ~IsNone(a.rc_v),
         dmat_fill |-> a.rc_s]

\* mutant of NewAEVSV: the fill distance is rmin instead of rc_s
NewAEVSV_FillRmin(a) ==
    LET s == InitBasis(a.rc_s, a.eta_s, a.nshifts_s, a.shifts_s, a.rmin)
        v == IF ~IsNone(a.rc_v)
             THEN InitBasis(Val(a.rc_v), a.eta_v, Val(a.nshifts_v),
                            a.shifts_v, a.rmin)
             ELSE InitBasis(a.rc_s, a.eta_s, a.nshifts_s, a.shifts_s, a.rmin)
    IN  [exists |-> TRUE,
         rc_s |-> s.rc, eta_s |-> s.eta, shifts_s |-> s.shifts,
         rc_v |-> v.rc, eta_v |-> v.eta, shifts_v |-> v.shifts,
         dual_basis |-> ~IsNone(a.rc_v),
         dmat_fill |-> a.rmin]

\* AEVSV.__init__ when it returns
NewAEVSV(a) ==
    LET s == InitBasis(a.rc_s, a.eta_s, a.nshifts_s, a.shifts_s, a.rmin)
        v == IF ~IsNone(a.rc_v)
             THEN InitBasis(Val(a.rc_v), a.eta_v, Val(a.nshifts_v),
                            a.shifts_v, a.rmin)
             ELSE InitBasis(a.rc_s, a.eta_s, a.nshifts_s, a.shifts_s, a.rmin)
    IN  [exists |-> TRUE,
         rc_s |-> s.rc, eta_s |-> s.eta, shifts_s |-> s.shifts,
         rc_v |-> v.rc, eta_v |-> v.eta, shifts_v |-> v.shifts,
         dual_basis |-> ~IsNone(a.rc_v),
         dmat_fill |-> a.rc_s]

\* the exception AEVSV.__init__ raises on these arguments, "" when it returns
CtorError(a) ==
    IF ~IsNone(a.rc_v) /\ ~VectorArgsValid(a) THEN "AssertionError" ELSE ""

\* no AEVSV(...) call was made yet
NoArgs == [rmin |-> 0, rc_s |-> 0, nshifts_s |-> 0, eta_s |-> None,
           rc_v |-> None, nshifts_v |-> None, eta_v |-> None,
           shifts_s |-> None, shifts_v |-> None]

CtorArgSet ==
    [rmin      : {80},
     rc_s      : {300, 500},
     nshifts_s : {1, 2},
     eta_s     : {None, Some(50)},
     rc_v      : {None, Some(300), Some(600)},
     nshifts_v : {None, Some(2)},
     eta_v     : {None},
     shifts_s  : {None, Some(<<100, 200>>)},
     shifts_v  : {None, Some(<<90>>)}]

\* one AEVSV(...) call of a program run
Construct(a) ==
    /\ ~aev.exists /\ ctorErr = ""
    /\ ctorArgs' = a
    /\ ctorErr' = CtorError(a)
    /\ aev' = IF CtorError(a) = "" THEN NewAEVSV(a) ELSE NoInstance
    /\ nbrs' = << >>
    /\ out' = [called |-> FALSE]
    /\ UNCHANGED <<ini, conv, fwd, train, maps, calls>>

\* the AEVSV(...) calls of the runs that only construct: every argument is
\* given or left out, the vector cutoff lies below rmin, below rc_s, at rc_s
\* or above it
CtorCallSet ==
    [rmin      : {80},
     rc_s      : {300, 500},
     nshifts_s : {1, 2},
     eta_s     : {None, Some(50)},
     rc_v      : {None, Some(50), Some(300), Some(600)},
     nshifts_v : {None, Some(1), Some(2)},
     eta_v     : {None, Some(70)},
     shifts_s  : {None, Some(<<100, 200>>)},
     shifts_v  : {None, Some(<<90>>), Some(<<200, 100>>)}]

----------------------------------------------------------------------------
(* AEVSV._calc_aev *)

\* displacement vectors of the neighbor slots; every one has an integer norm
RSet ==
    { <<250, 0, 0>>, <<150, 200, 0>>, <<0, 0, 300>>, <<600, 0, 0>> }

\* the integer square root, by bisection of lo..hi
RECURSIVE SqrtIn(_, _, _)
SqrtIn(n, lo, hi) ==
    IF lo >= hi THEN lo
    ELSE LET mid == (lo + hi + 1) \div 2
         IN  IF mid * mid <= n THEN SqrtIn(n, mid, hi)
             ELSE SqrtIn(n, lo, mid - 1)

ISqrt(n) == SqrtIn(n, 0, 40000)

Norm(r) == ISqrt(r[1] * r[1] + r[2] * r[2] + r[3] * r[3])

\* a slot is a valid neighbor at its distance, or a padding slot that holds
\* either some displacement and its distance or a zero displacement and the
\* fill distance 500
SlotSet ==
    { [r |-> r, d |-> Norm(r), valid |-> b] : r \in RSet, b \in BOOLEAN }
    \cup { [r |-> <<0, 0, 0>>, d |-> 500, valid |-> FALSE] }

NbrSet == UNION { [1..m -> SlotSet] : m \in 1..MaxNbr }

\* fc_ij = nbops.mask_ij_(ops.cosine_cutoff(d_ij, rc_s), data, 0.0)
FcScalar(self, nb) ==
    [m \in 1..Len(nb) |->
        MaskIj(CosineCutoff(nb[m].d, self.rc_s), nb[m].valid, 0)]

\* mutant of CalcGs: the expansion is not multiplied by the cutoff factor
CalcGs_NoCutoff(self, nb) ==
    [k \in 1..Len(self.shifts_s) |->
        [m \in 1..Len(nb) |->
            ExpExpand(nb[m].d, self.shifts_s, self.eta_s)[k]]]

\* gs = ops.exp_expand(d_ij, shifts_s, eta_s) * fc_ij.unsqueeze(-2)
CalcGs(self, nb) ==
    [k \in 1..Len(self.shifts_s) |->
        [m \in 1..Len(nb) |->
            Mul(ExpExpand(nb[m].d, self.shifts_s, self.eta_s)[k],
                FcScalar(self, nb)[m])]]

\* u_ij = r_ij.mT / d_ij.unsqueeze(-2)
CalcU(nb) ==
    [a \in 1..3 |-> [m \in 1..Len(nb) |-> Div(nb[m].r[a] * Scale, nb[m].d)]]

\* gsv = ops.exp_expand(d_ij, shifts_v, eta_v) * ops.cosine_cutoff(d_ij, rc_v)
CalcGsv(self, nb) ==
    [k \in 1..Len(self.shifts_v) |->
        [m \in 1..Len(nb) |->
            Mul(ExpExpand(nb[m].d, self.shifts_v, self.eta_v)[k],
                CosineCutoff(nb[m].d, self.rc_v))]]

\* mutant of VectorFactor: the factor is recomputed from the vector basis
\* parameters in single basis mode too
VectorFactor_Recomputed(self, nb) == CalcGsv(self, nb)

\* the scalar factor of the vector basis: gsv in dual basis mode, gs otherwise
VectorFactor(self, nb) ==
    IF self.dual_basis THEN CalcGsv(self, nb) ELSE CalcGs(self, nb)

\* mutant of OuterGv: the unit vector is broadcast along the wrong axis, so
\* every spatial component gets the x component of u_ij
OuterGv_WrongAxis(g, u) ==
    [k \in 1..Len(g) |->
        [a \in 1..3 |-> [m \in 1..Len(u[1]) |-> Mul(g[k][m], u[1][m])]]]

\* gv = g.unsqueeze(-2) * u_ij.unsqueeze(-3)
OuterGv(g, u) ==
    [k \in 1..Len(g) |->
        [a \in 1..3 |-> [m \in 1..Len(u[1]) |-> Mul(g[k][m], u[a][m])]]]

CalcAevResult(self, nb) ==
    [called |-> TRUE,
     u_ij |-> CalcU(nb),
     gs |-> CalcGs(self, nb),
     gv |-> OuterGv(VectorFactor(self, nb), CalcU(nb))]

\* one _calc_aev call on the constructed instance
CalcAev(nb) ==
    /\ aev.exists /\ ~out.called
    /\ nbrs' = nb
    /\ out' = CalcAevResult(aev, nb)
    /\ UNCHANGED <<aev, ctorArgs, ctorErr, ini, conv, fwd, train, maps, calls>>

----------------------------------------------------------------------------
\* no AEVSV was constructed
AevIdle ==
    /\ aev = NoInstance
    /\ ctorArgs = NoArgs
    /\ ctorErr = ""
    /\ nbrs = << >>
    /\ out = [called |-> FALSE]

InitAEV ==
    AevIdle /\ ini = IniIdle /\ conv = NoConv /\ fwd = NoFwd /\ train = TrainIdle
    /\ maps = << >> /\ calls = << >>

NextAEV ==
    \/ \E a \in CtorArgSet : Construct(a)
    \/ \E nb \in NbrSet : CalcAev(nb)

SpecAEV == InitAEV /\ [][NextAEV]_vars

\* the runs that only construct an AEVSV
InitCtor == InitAEV

NextCtor == \E a \in CtorCallSet : Construct(a)

SpecCtor == InitCtor /\ [][NextCtor]_vars

----------------------------------------------------------------------------
(* Rotations of the displacement vectors *)

\* a rotation matrix m / den with integer entries: the quarter turns about z
\* and x, the cyclic permutation of the axes, and the turn about z by the
\* angle of the 3-4-5 triangle (cos = 3/5, sin = 4/5)
RotSet ==
    { [m |-> << <<0, -1, 0>>, <<1, 0, 0>>, <<0, 0, 1>> >>, den |-> 1],
      [m |-> << <<1, 0, 0>>, <<0, 0, -1>>, <<0, 1, 0>> >>, den |-> 1],
      [m |-> << <<0, 1, 0>>, <<0, 0, 1>>, <<1, 0, 0>> >>, den |-> 1],
      [m |-> << <<3, -4, 0>>, <<4, 3, 0>>, <<0, 0, 5>> >>, den |-> 5] }

\* R applied to a 3-vector
Rotate(R, v) ==
    [a \in 1..3 |->
        Div(R.m[a][1] * v[1] + R.m[a][2] * v[2] + R.m[a][3] * v[3], R.den)]

\* the neighbor slots with every r_ij rotated, d_ij and the mask unchanged
RotNbrs(R, nb) ==
    [m \in 1..Len(nb) |-> [nb[m] EXCEPT !.r = Rotate(R, nb[m].r)]]

\* R applied along the spatial axis of gv
RotGv(R, gv) ==
    [k \in 1..Len(gv) |->
        LET rot(m) == Rotate(R, <<gv[k][1][m], gv[k][2][m], gv[k][3][m]>>)
        IN  [a \in 1..3 |-> [m \in 1..Len(gv[k][1]) |-> rot(m)[a]]]]

\* the largest difference between two gv tensors of one shape
GvWithin(g1, g2, tol) ==
    \A k \in 1..Len(g1) : \A a \in 1..3 : \A m \in 1..Len(g1[k][a]) :
        Abs(g1[k][a][m] - g2[k][a][m]) <= tol

\* rounding error allowed between gv of the rotated input and the rotated gv
RotTol == 2

----------------------------------------------------------------------------
(* Claims about AEVSV *)

NShiftsS == Len(aev.shifts_s)
NShiftsV == Len(aev.shifts_v)
Slots == 1..Len(nbrs)

\* C1: at every neighbor slot the mask marks invalid, every gs and every gv
\* entry is exactly 0, in single basis and in dual basis mode, whatever
\* distance the slot holds.
C1_MaskedSlotsZero ==
    out.called =>
        \A m \in Slots : ~nbrs[m].valid =>
            /\ \A k \in 1..Len(out.gs) : out.gs[k][m] = 0
            /\ \A k \in 1..Len(out.gv) : \A a \in 1..3 : out.gv[k][a][m] = 0

\* the cutoff that gates the vector basis
GateRcV == IF aev.dual_basis THEN aev.rc_v ELSE aev.rc_s

\* C2: a valid slot at or beyond rc_s has gs exactly 0; a slot at or beyond
\* the cutoff gating the vector basis has gv exactly 0; the gate is 1 at
\* d = 0 and 0 at every distance d >= rc of the call.
C2_BeyondCutoffZero ==
    out.called =>
        /\ \A m \in Slots : (nbrs[m].valid /\ nbrs[m].d >= aev.rc_s) =>
              \A k \in 1..Len(out.gs) : out.gs[k][m] = 0
        /\ \A m \in Slots : nbrs[m].d >= GateRcV =>
              \A k \in 1..Len(out.gv) : \A a \in 1..3 : out.gv[k][a][m] = 0
        /\ \A rc \in {aev.rc_s, aev.rc_v} :
              /\ CosineCutoff(0, rc) = Scale
              /\ \A m \in Slots : nbrs[m].d >= rc => CosineCutoff(nbrs[m].d, rc) = 0

\* a call with a valid slot beyond rc_s next to a valid slot inside it whose
\* gs and gv are not zero
C2_Witness ==
    /\ out.called
    /\ \E m \in Slots : nbrs[m].valid /\ nbrs[m].d >= aev.rc_s
    /\ \E m \in Slots : /\ nbrs[m].valid /\ nbrs[m].d < GateRcV
                        /\ out.gs[1][m] # 0
                        /\ \E a \in 1..3 : out.gv[1][a][m] # 0

\* C3 as claimed: for every rotation R of the displacement vectors the
\* returned gs is identical and the returned gv is exactly R applied to the
\* original gv.
C3_RotationExact ==
    out.called =>
        \A R \in RotSet :
            LET rot == CalcAevResult(aev, RotNbrs(R, nbrs))
            IN  rot.gs = out.gs /\ rot.gv = RotGv(R, out.gv)

\* C3 as amended: gs is identical under every rotation; gv of the rotated
\* input equals the rotated gv exactly for a rotation that maps each axis to
\* an axis, and within the rounding error of the arithmetic otherwise.
C3_RotationEquivariant ==
    out.called =>
        \A R \in RotSet :
            LET rot == CalcAevResult(aev, RotNbrs(R, nbrs))
            IN  /\ rot.gs = out.gs
                /\ R.den = 1 => rot.gv = RotGv(R, out.gv)
                /\ GvWithin(rot.gv, RotGv(R, out.gv), RotTol)

\* a call whose gv is not zero and is changed by every rotation
C3_Witness ==
    /\ out.called
    /\ \E m \in Slots : \E a \in 1..3 : out.gv[1][a][m] # 0
    /\ \A R \in RotSet : RotGv(R, out.gv) # out.gv

\* C4: without a separate vector basis, gv[k, d, m] = gs[k, m] * u_ij[d, m]
\* with u_ij = r_ij / d_ij, at every shift, axis and neighbor slot.
C4_SingleBasisOuterProduct ==
    (out.called /\ ~aev.dual_basis) =>
        /\ Len(out.gv) = Len(out.gs)
        /\ \A k \in 1..Len(out.gs) : \A a \in 1..3 : \A m \in Slots :
              out.gv[k][a][m] =
                  Mul(out.gs[k][m], Div(nbrs[m].r[a] * Scale, nbrs[m].d))

\* a single basis call with a padding slot inside the cutoff next to a valid
\* slot whose gv is not zero
C4_Witness ==
    /\ out.called /\ ~aev.dual_basis
    /\ \E m \in Slots : ~nbrs[m].valid /\ nbrs[m].d < aev.rc_s
    /\ \E m \in Slots : \E a \in 1..3 : out.gv[1][a][m] # 0

----------------------------------------------------------------------------
(* _init_ahg and _init_ahg_one *)

\* "make x8 times more vectors": the pool holds 8 * m candidates
PoolFactor == 8

\* a1 * sin(a2 * 2 * x * pi / n) + a3 * cos(a4 * 2 * x * pi / n) for random
\* a1..a4: the values a candidate of length 3 may take before it is
\* standardized, 24 of them with 24 different directions
RawList3 ==
    << <<1, -1, 0>>, <<-1, 1, 0>>, <<1, 0, 0>>, <<0, 1, 1>>, <<0, 0, 1>>,
       <<2, -3, 1>>, <<-3, 2, 0>>, <<1, 2, -3>>, <<3, -1, 0>>, <<0, -3, 1>>,
       <<-2, 1, 3>>, <<2, 3, -1>>, <<-3, 0, 2>>, <<1, -3, 2>>, <<3, 1, -1>>,
       <<-1, 3, -3>>, <<0, 3, -1>>, <<-2, -3, 3>>, <<-1, 0, 3>>,
       <<2, -1, -3>>, <<-3, 3, 1>>, <<-2, 2, -3>>, <<3, 3, -2>>,
       <<-3, -2, 1>> >>

\* the same for candidates of length 2
RawList2 ==
    << <<0, 1>>, <<1, 0>>, <<0, 2>>, <<3, 1>>, <<-1, 2>>, <<-2, -3>>,
       <<2, 0>>, <<1, 3>>, <<0, -1>>, <<-1, 0>>, <<2, 3>>, <<3, 0>>,
       <<-3, 1>>, <<1, -2>>, <<0, 3>>, <<-2, 0>>, <<1, 2>>, <<2, 1>>,
       <<-1, 1>>, <<1, -1>>, <<3, 2>>, <<-3, 0>>, <<-2, 1>>, <<2, -1>> >>

RawList(n) == IF n = 2 THEN RawList2 ELSE RawList3

RECURSIVE SumSeq(_)
SumSeq(s) == IF s = << >> THEN 0 ELSE s[1] + SumSeq(Tail(s))

\* y -= y.mean(dim=-1); y /= y.std(dim=-1), for one candidate
Standardize(raw) ==
    LET n == Len(raw)
        c == [x \in 1..n |-> raw[x] * Scale - Div(SumSeq(raw) * Scale, n)]
        var == Div(SumSeq([x \in 1..n |-> c[x] * c[x]]), n - 1)
    IN  [x \in 1..n |-> Div(c[x] * Scale, ISqrt(var))]

\* the standardized candidates a pool is drawn from, and torch.cdist of
\* any two of them (the Euclidean distance)
CandList2 == [i \in 1..Len(RawList2) |-> Standardize(RawList2[i])]
CandList3 == [i \in 1..Len(RawList3) |-> Standardize(RawList3[i])]

EuclidDist(u, v) ==
    ISqrt(SumSeq([x \in 1..Len(u) |-> (u[x] - v[x]) * (u[x] - v[x])]))

DistTab2 ==
    [i \in 1..Len(CandList2) |->
        [k \in 1..Len(CandList2) |-> EuclidDist(CandList2[i], CandList2[k])]]
DistTab3 ==
    [i \in 1..Len(CandList3) |->
        [k \in 1..Len(CandList3) |-> EuclidDist(CandList3[i], CandList3[k])]]

\* a pool y is the sequence of the numbers its candidates have in the list
Cand(n, c) == IF n = 2 THEN CandList2[c] ELSE CandList3[c]

\* one entry of torch.cdist(y, y)
Dist(n, y, i, k) == IF n = 2 THEN DistTab2[y[i]][y[k]] ELSE DistTab3[y[i]][y[k]]

\* the pools a call may draw: the first size candidates of the list, moved
\* round by off places (which puts the candidate of largest total distance
\* last in some pools and elsewhere in others), with the candidate at
\* position dup[1] drawn equal to the one at position dup[2] (dup[1] = dup[2]:
\* no two candidates coincide)
DrawnPool(size, off, dup) ==
    LET base == [i \in 1..size |-> ((i - 1 + off) % size) + 1]
    IN  [i \in 1..size |-> IF i = dup[1] THEN base[dup[2]] ELSE base[i]]

\* a pool whose candidates take two values only, the first two of the list,
\* which are opposite directions
TwoValuedPool(size) == [i \in 1..size |-> 2 - (i % 2)]

PoolSet(m) ==
    LET size == PoolFactor * m
    IN  { DrawnPool(size, off, dup) :
            off \in {0, 1, 3},
            dup \in { <<1, 1>>, <<size, 1>>, <<2, size>> } }
        \cup { TwoValuedPool(size) }

\* dmat.sum(-1)
SumDist(n, y) ==
    [i \in 1..Len(y) |-> SumSeq([k \in 1..Len(y) |-> Dist(n, y, i, k)])]

\* dmat.sum(-1).argmax(): the first index of a largest total distance
FirstPick(n, y) ==
    LET sd == SumDist(n, y)
    IN  CHOOSE i \in 1..Len(y) :
            /\ \A k \in 1..Len(y) : sd[k] <= sd[i]
            /\ \A k \in 1..(i - 1) : sd[k] < sd[i]

\* torch.cdist(ret[:j], y).min(dim=0): the distance of every candidate to
\* the nearest selected candidate
MinDist(n, y, sel) ==
    [c \in 1..Len(y) |->
        LET ds == { Dist(n, y, sel[t], c) : t \in 1..Len(sel) }
        IN  CHOOSE d \in ds : \A e \in ds : d <= e]

\* the last position of mask that holds True
LastTrue(mask) ==
    CHOOSE p \in 1..Len(mask) :
        mask[p] /\ \A q \in (p + 1)..Len(mask) : ~mask[q]

\* mutant of PickSet: the first element of the sorted order is taken, the
\* candidate nearest to the selected ones
PickSet_Nearest(n, y, sel, mask) ==
    LET md == MinDist(n, y, sel)
    IN  { i \in 1..Len(y) : \A k \in 1..Len(y) : md[i] <= md[k] }

\* torch.argsort(mindist)[mask][-1]: the boolean mask indexes the positions
\* of the sorted order, so this is the element argsort puts at position
\* LastTrue(mask); argsort orders equal distances in any order
PickSet(n, y, sel, mask) ==
    LET p == LastTrue(mask)
        md == MinDist(n, y, sel)
        below(i) == Cardinality({ k \in 1..Len(y) : md[k] < md[i] })
        upto(i) == Cardinality({ k \in 1..Len(y) : md[k] <= md[i] })
    IN  { i \in 1..Len(y) : below(i) < p /\ p <= upto(i) }

\* mask[i] = False
MaskOut(mask, i) == [mask EXCEPT ![i] = FALSE]

\* _init_ahg_one(n, m).t(): the selected candidates as columns
Transposed(n, y, sel) ==
    [g \in 1..n |-> [h \in 1..Len(sel) |-> Cand(n, y[sel[h]])[g]]]

----------------------------------------------------------------------------
(* ConvSV.__init__, through _init_ahg and _init_ahg_one *)

\* mutant of OrElse: the default is taken whatever was supplied
OrElse_Default(o, dflt) == dflt

\* Python's "x or y" on an optional int: y when x is None or 0
OrElse(o, dflt) == IF IsNone(o) \/ Val(o) = 0 THEN dflt ELSE Val(o)

ConvArg(S, C, d2, dv, V, K) ==
    [nshifts_s |-> S, nchannel |-> C, d2features |-> d2, do_vector |-> dv,
     nshifts_v |-> V, ncomb_v |-> K]

\* the calls ConvSV(nshifts_s, nchannel, d2features, do_vector, nshifts_v,
\* ncomb_v) of the model
ConvArgSet ==
    { ConvArg(2, 1, FALSE, TRUE, None, None),
      ConvArg(3, 1, FALSE, TRUE, None, Some(1)),
      ConvArg(1, 1, FALSE, TRUE, Some(3), Some(2)),
      ConvArg(3, 1, TRUE, TRUE, None, None),
      ConvArg(2, 2, FALSE, TRUE, Some(3), Some(2)),
      ConvArg(2, 2, TRUE, TRUE, None, None),
      ConvArg(2, 1, FALSE, FALSE, Some(3), Some(3)),
      ConvArg(2, 2, TRUE, FALSE, None, Some(1)),
      ConvArg(1, 1, FALSE, TRUE, Some(2), Some(3)),
      ConvArg(2, 1, TRUE, TRUE, Some(3), Some(1)) }

\* ConvSV.__init__ up to the loop of _init_ahg(nchannel, nshifts_v, ncomb_v),
\* which starts from ret = torch.zeros(b, m, n)
ConvConstruct(a) ==
    /\ ~conv.exists /\ ini.pc = "idle"
    /\ LET nshifts_v == OrElse(a.nshifts_v, a.nshifts_s)
           ncomb_v == OrElse(a.ncomb_v, nshifts_v)
       IN  ini' = [IniIdle EXCEPT !.pc = "channel", !.args = a,
                                  !.b = a.nchannel, !.n = nshifts_v,
                                  !.m = ncomb_v]
    /\ UNCHANGED <<aevVars, conv, fwd, train, maps, calls>>

\* _init_ahg_one up to its loop: the pool is drawn and standardized and the
\* candidate of largest total distance is selected
InitAhgOneBegin(y) ==
    /\ ini.pc = "channel"
    /\ ini' = [ini EXCEPT !.pc = "select", !.y = y,
                          !.idx = <<FirstPick(ini.n, y)>>,
                          !.mask = MaskOut([i \in 1..Len(y) |-> TRUE],
                                           FirstPick(ini.n, y))]
    /\ UNCHANGED <<aevVars, conv, fwd, train, maps, calls>>

\* one iteration of "for j in range(1, m)"
InitAhgOneStep ==
    /\ ini.pc = "select"
    /\ Len(ini.idx) < ini.m
    /\ \E maxidx \in PickSet(ini.n, ini.y, ini.idx, ini.mask) :
          IF ini.mask[maxidx]
          THEN ini' = [ini EXCEPT !.idx = Append(ini.idx, maxidx),
                                  !.mask = MaskOut(ini.mask, maxidx)]
          ELSE ini' = [ini EXCEPT !.pc = "AssertionError"]
    /\ UNCHANGED <<aevVars, conv, fwd, train, maps, calls>>

\* what __init__ registers and stores once _init_ahg has returned agh
NewConvSV(a, n, m, agh) ==
    [exists |-> TRUE, agh |-> agh, do_vector |-> a.do_vector,
     nchannel |-> a.nchannel, d2features |-> a.d2features,
     nshifts_s |-> a.nshifts_s, nshifts_v |-> n, ncomb_v |-> m]

\* _init_ahg_one returns and _init_ahg stores ret[i]; after the last channel
\* _init_ahg returns ret and __init__ registers it as the parameter agh
InitAhgOneReturn ==
    /\ ini.pc = "select"
    /\ Len(ini.idx) = ini.m
    /\ LET ret == Append(ini.ret, Transposed(ini.n, ini.y, ini.idx))
           last == Len(ret) = ini.b
       IN  /\ ini' = [ini EXCEPT
                        !.pc = IF last THEN "done" ELSE "channel",
                        !.pools = Append(ini.pools, ini.y),
                        !.picks = Append(ini.picks, ini.idx),
                        !.ret = ret,
                        !.y = << >>, !.idx = << >>, !.mask = << >>]
           /\ conv' = IF last THEN NewConvSV(ini.args, ini.n, ini.m, ret)
                      ELSE conv
    /\ UNCHANGED <<aevVars, fwd, train, maps, calls>>

----------------------------------------------------------------------------
(* ConvSV.output_size and ConvSV.forward *)

\* mutant of OutputSize: the vector block is counted with nshifts_v
OutputSize_Shifts(self) ==
    self.nchannel * self.nshifts_s
        + (IF self.do_vector THEN self.nchannel * self.nshifts_v ELSE 0)

OutputSize(self) ==
    self.nchannel * self.nshifts_s
        + (IF self.do_vector THEN self.nchannel * self.ncomb_v ELSE 0)

\* values of the tensors handed to forward
Pattern(seed, i, j, k) == (((7 * i + 11 * j + 13 * k + 5 * seed) % 9) - 4) * 25

\* gs (shift, neighbor), gv (shift, axis, neighbor) and the features a:
\* (neighbor, channel), or (shift, channel, neighbor) with d2features
FwdInput(self, M, seed, withGv) ==
    [gs |-> [g \in 1..self.nshifts_s |->
                [m \in 1..M |-> Abs(Pattern(seed, g, m, 0))]],
     gv |-> IF withGv
            THEN Some([g \in 1..self.nshifts_v |-> [d \in 1..3 |->
                    [m \in 1..M |-> Pattern(seed, g, d, m)]]])
            ELSE None,
     a  |-> IF self.d2features
            THEN [g \in 1..self.nshifts_s |-> [c \in 1..self.nchannel |->
                    [m \in 1..M |-> Pattern(seed, g + 1, c, m + 1)]]]
            ELSE [m \in 1..M |-> [c \in 1..self.nchannel |->
                    Pattern(seed, 1, c, m + 1)]]]

FwdInputSet(self) ==
    { FwdInput(self, M, seed, withGv) :
        M \in 1..MaxNbr, seed \in {1, 2, 3}, withGv \in BOOLEAN }

\* flatten(-2, -1) of a matrix given as a sequence of rows
Flatten(t) ==
    IF t = << >> THEN << >>
    ELSE LET w == Len(t[1])
         IN  [i \in 1..(Len(t) * w) |-> t[((i - 1) \div w) + 1][((i - 1) % w) + 1]]

\* number of channels and of neighbors of the features a
NChan(self, a) == Len(a[1])
NNbrs(self, a) == IF self.d2features THEN Len(a[1][1]) ELSE Len(a)

\* einsum lets an axis of size 1 stand for any size
Bcast(n, g) == IF n = 1 THEN 1 ELSE g
Fits(n1, n2) == n1 = n2 \/ n1 = 1 \/ n2 = 1
MaxOf(n1, n2) == IF n1 >= n2 THEN n1 ELSE n2

\* mutant of Feature: the neighbor-resolved layout reads the first neighbor
Feature_FirstNeighbor(self, a, g, c, m) ==
    IF self.d2features THEN a[Bcast(Len(a), g)][c][1] ELSE a[m][c]

\* mutant of Feature: every channel reads the features of the first channel
Feature_FirstChannel(self, a, g, c, m) ==
    IF self.d2features THEN a[Bcast(Len(a), g)][1][m] ELSE a[m][1]

\* a[..., g, a, m] or a[..., m, a]
Feature(self, a, g, c, m) ==
    IF self.d2features THEN a[Bcast(Len(a), g)][c][m] ELSE a[m][c]

\* einsum("...gam,...gm->...ag") or einsum("...gm,...ma->...ag")
ScalarPath(self, a, gs) ==
    LET G == IF self.d2features THEN MaxOf(Len(a), Len(gs)) ELSE Len(gs)
    IN  [c \in 1..NChan(self, a) |-> [g \in 1..G |->
            SumSeq([m \in 1..NNbrs(self, a) |->
                Mul(Feature(self, a, g, c, m), gs[Bcast(Len(gs), g)][m])])]]

\* whether the axes shared by the operands of the vector einsum agree
VectorShapesFit(self, a, gv) ==
    /\ Fits(Len(gv), Len(self.agh[1]))
    /\ self.d2features =>
          /\ Fits(Len(a), Len(gv))
          /\ Fits(Len(a), Len(self.agh[1]))
    /\ Fits(NChan(self, a), Len(self.agh))

\* mutant of VectorPath: the components are summed without pow(2)
VectorPath_NoSquare(self, a, gv) ==
    LET agh == self.agh
        G == MaxOf(Len(gv), Len(agh[1]))
        avf_v(c, h, d) ==
            SumSeq([g \in 1..G |->
                SumSeq([m \in 1..NNbrs(self, a) |->
                    Mul(Mul(Feature(self, a, g, c, m),
                            gv[Bcast(Len(gv), g)][d][m]),
                        agh[c][Bcast(Len(agh[1]), g)][h])])])
    IN  [c \in 1..Len(agh) |-> [h \in 1..Len(agh[1][1]) |->
            SumSeq([d \in 1..3 |-> avf_v(c, h, d)])]]

\* einsum("...gam,...gdm,agh->...ahd") or einsum("...ma,...gdm,agh->...ahd"),
\* then .pow(2).sum(-1)
VectorPath(self, a, gv) ==
    LET agh == self.agh
        G == MaxOf(Len(gv), Len(agh[1]))
        avf_v(c, h, d) ==
            SumSeq([g \in 1..G |->
                SumSeq([m \in 1..NNbrs(self, a) |->
                    Mul(Mul(Feature(self, a, g, c, m),
                            gv[Bcast(Len(gv), g)][d][m]),
                        agh[c][Bcast(Len(agh[1]), g)][h])])])
    IN  [c \in 1..Len(agh) |-> [h \in 1..Len(agh[1][1]) |->
            SumSeq([d \in 1..3 |-> Mul(avf_v(c, h, d), avf_v(c, h, d))])]]

\* what forward returns, or the exception it raises
ForwardResult(self, a, gs, gv) ==
    IF self.d2features /\ ~Fits(Len(a), Len(gs))
    THEN [err |-> "RuntimeError", result |-> << >>]
    ELSE IF ~self.do_vector
    THEN [err |-> "", result |-> Flatten(ScalarPath(self, a, gs))]
    ELSE IF IsNone(gv)
    THEN [err |-> "AssertionError", result |-> << >>]
    ELSE IF ~VectorShapesFit(self, a, Val(gv))
    THEN [err |-> "RuntimeError", result |-> << >>]
    ELSE [err |-> "",
          result |-> Flatten(ScalarPath(self, a, gs))
                        \o Flatten(VectorPath(self, a, Val(gv)))]

\* one forward call on the constructed instance
Forward(inp) ==
    /\ conv.exists /\ ~fwd.called
    /\ LET res == ForwardResult(conv, inp.a, inp.gs, inp.gv)
       IN  fwd' = [called |-> TRUE, a |-> inp.a, gs |-> inp.gs, gv |-> inp.gv,
                   err |-> res.err, result |-> res.result]
    /\ UNCHANGED <<aevVars, ini, conv, train, maps, calls>>

InitConv ==
    AevIdle /\ ini = IniIdle /\ conv = NoConv /\ fwd = NoFwd /\ train = TrainIdle
    /\ maps = << >> /\ calls = << >>

NextConv ==
    \/ \E a \in ConvArgSet : ConvConstruct(a)
    \/ \E y \in PoolSet(ini.m) : InitAhgOneBegin(y)
    \/ InitAhgOneStep
    \/ InitAhgOneReturn
    \/ \E inp \in FwdInputSet(conv) : Forward(inp)

SpecConv == InitConv /\ [][NextConv]_vars

----------------------------------------------------------------------------
(* train_mp.py: run, get_parameters, build_engine and the trainer's _update *)

\* training iterations and validation runs of one run(...)
MaxIter == 2
MaxEval == 1

\* torch.nn.utils.clip_grad_value_(model.parameters(), 0.4)
ClipValue == 40

\* the optimizer's lr of config['kwargs']
LearningRate == 10

\* named_parameters() of the model of a run, in registration order: an AEVSV,
\* a ConvSV and a dense layer
ModuleParams ==
    << <<"aev", "rc_s">>, <<"aev", "eta_s">>, <<"aev", "shifts_s">>,
       <<"aev", "rc_v">>, <<"aev", "eta_v">>, <<"aev", "shifts_v">>,
       <<"conv", "agh">>, <<"mlp", "weight">> >>

NModel == Len(ModuleParams)

\* the parameter of the loss module, which is no parameter of the model
LossParam == NModel + 1

\* the name named_parameters() gives parameter i: Forces(model) holds the
\* model as its submodule "module"
ParamName(wrapped, i) ==
    IF wrapped THEN <<"module">> \o ModuleParams[i] ELSE ModuleParams[i]

\* re.match(x, n): the pattern x, a sequence of name segments and ".*",
\* matches a prefix of the name n
RECURSIVE ReMatch(_, _)
ReMatch(x, n) ==
    IF x = << >> THEN TRUE
    ELSE IF Head(x) = ".*"
         THEN \E k \in 0..Len(n) : ReMatch(Tail(x), SubSeq(n, k + 1, Len(n)))
         ELSE n # << >> /\ Head(n) = Head(x) /\ ReMatch(Tail(x), Tail(n))

\* any(re.match(x, n) for x in patterns)
AnyMatch(patterns, n) ==
    \E k \in 1..Len(patterns) : ReMatch(patterns[k], n)

\* the AEVSV(...) call of the model definition
AevArgs(dual) ==
    [rmin |-> 80, rc_s |-> 500, nshifts_s |-> 2, eta_s |-> None,
     rc_v |-> IF dual THEN Some(300) ELSE None,
     nshifts_v |-> IF dual THEN Some(2) ELSE None,
     eta_v |-> None, shifts_s |-> None, shifts_v |-> None]

\* agh of ConvSV(nshifts_s=2, nchannel=1, nshifts_v=3, ncomb_v=1): the
\* initializer's first pick from one pool of 8 candidates
BuiltAgh ==
    LET y == DrawnPool(PoolFactor, 0, <<1, 1>>)
    IN  Flatten(Transposed(3, y, <<FirstPick(3, y)>>))

\* the parameter tensors build_model leaves, flattened
BuiltData(dual) ==
    LET a == NewAEVSV(AevArgs(dual))
    IN  << <<a.rc_s>>, <<a.eta_s>>, a.shifts_s,
           <<a.rc_v>>, <<a.eta_v>>, a.shifts_v,
           BuiltAgh, <<50, -50>>, <<100>> >>

\* requires_grad as the modules register their parameters
BuiltRequiresGrad(lossTrainable) ==
    [i \in 1..LossParam |->
        IF i = LossParam THEN lossTrainable
        ELSE ModuleParams[i][1] # "aev"]

\* the state dicts torch.load may return: one of a whole model, one of a
\* dense layer and a key the model does not have
SdFull ==
    << [name |-> <<"aev", "rc_s">>, value |-> <<450>>],
       [name |-> <<"aev", "eta_s">>, value |-> <<30>>],
       [name |-> <<"aev", "shifts_s">>, value |-> <<90, 270>>],
       [name |-> <<"aev", "rc_v">>, value |-> <<350>>],
       [name |-> <<"aev", "eta_v">>, value |-> <<60>>],
       [name |-> <<"aev", "shifts_v">>, value |-> <<90, 220>>],
       [name |-> <<"conv", "agh">>, value |-> <<10, -20, 10>>],
       [name |-> <<"mlp", "weight">>, value |-> <<25, 75>>] >>

SdHead ==
    << [name |-> <<"mlp", "weight">>, value |-> <<25, 75>>],
       [name |-> <<"head", "bias">>, value |-> <<5>>] >>

\* the configurations of a run: the patterns of the optimizer's
\* 'parameters' entry, the file of --load, whether a validation set is
\* configured and holds forces, and whether the loss module has a trainable
\* parameter
TrainCfgSet ==
    [force_train   : { << >>, << <<"aev">> >>, << <<".*", "agh">> >>,
                       << <<"aev", "shifts_s">>, <<"mlp">> >> },
     force_notrain : { << >>, << <<"conv">> >>, << <<".*">> >> },
     load          : { None, Some(SdFull), Some(SdHead) },
     val           : BOOLEAN,
     forces        : BOOLEAN,
     dual          : BOOLEAN,
     lossTrainable : BOOLEAN]

\* load_state_dict(sd, strict=False): every key of sd that names a parameter
\* is copied into it, the other keys and the other parameters are left
LoadStateDict(data, sd) ==
    [i \in 1..Len(data) |->
        IF i <= NModel /\ \E k \in 1..Len(sd) : sd[k].name = ModuleParams[i]
        THEN sd[CHOOSE k \in 1..Len(sd) : sd[k].name = ModuleParams[i]].value
        ELSE data[i]]

\* the loop of get_parameters over model.named_parameters()
ForcedRequiresGrad(rg, wrapped, cfg) ==
    [i \in 1..Len(rg) |->
        IF i > NModel THEN rg[i]
        ELSE IF AnyMatch(cfg.force_notrain, ParamName(wrapped, i)) THEN FALSE
        ELSE IF AnyMatch(cfg.force_train, ParamName(wrapped, i)) THEN TRUE
        ELSE rg[i]]

\* mutant of GetParameters: every parameter of the model is returned
GetParameters_Unfiltered(rg) ==
    [i \in 1..NModel |-> i]

\* list(filter(lambda x: x.requires_grad, model.parameters()))
GetParameters(rg) ==
    SelectSeq([i \in 1..NModel |-> i], LAMBDA i : rg[i])

\* optimizer.zero_grad()
ZeroGrad(grad, opt) ==
    [i \in 1..Len(grad) |->
        IF \E k \in 1..Len(opt) : opt[k] = i THEN None ELSE grad[i]]

\* loss.backward(): the gradient of every parameter that requires grad is
\* added to its .grad; g scales the gradient of this batch
Backward(grad, rg, data, g) ==
    [i \in 1..Len(grad) |->
        IF ~rg[i] THEN grad[i]
        ELSE Some([k \in 1..Len(data[i]) |->
                     (IF IsNone(grad[i]) THEN 0 ELSE Val(grad[i])[k])
                       + (IF (i + k) % 2 = 0 THEN g ELSE 0 - g)])]

Clamp(x, lo, hi) == IF x < lo THEN lo ELSE IF x > hi THEN hi ELSE x

\* clip_grad_value_(model.parameters(), 0.4)
ClipGradValue(grad) ==
    [i \in 1..Len(grad) |->
        IF i > NModel \/ IsNone(grad[i]) THEN grad[i]
        ELSE Some([k \in 1..Len(Val(grad[i])) |->
                     Clamp(Val(grad[i])[k], 0 - ClipValue, ClipValue)])]

\* optimizer.step(): a parameter of the param group with a gradient moves
\* against it
OptimizerStep(data, grad, opt) ==
    [i \in 1..Len(data) |->
        IF (\E k \in 1..Len(opt) : opt[k] = i) /\ ~IsNone(grad[i])
        THEN [k \in 1..Len(data[i]) |->
                data[i][k] - Mul(LearningRate, Val(grad[i])[k])]
        ELSE data[i]]

\* run: build_model(model_cfg)
BuildModel(cfg) ==
    /\ train.pc = "idle"
    /\ train' = [TrainIdle EXCEPT
                    !.pc = "load", !.op = "build_model", !.cfg = cfg,
                    !.data = BuiltData(cfg.dual),
                    !.requires_grad = BuiltRequiresGrad(cfg.lossTrainable),
                    !.grad = [i \in 1..LossParam |-> None]]
    /\ UNCHANGED <<aevVars, ini, conv, fwd, maps, calls>>

\* run: "if load is not None" with its load_state_dict
LoadWeights ==
    /\ train.pc = "load"
    /\ train' = IF IsNone(train.cfg.load)
                THEN [train EXCEPT !.pc = "loaders", !.op = "no_load"]
                ELSE [train EXCEPT
                        !.pc = "loaders", !.op = "load_state_dict",
                        !.data = LoadStateDict(train.data, Val(train.cfg.load))]
    /\ UNCHANGED <<aevVars, ini, conv, fwd, maps, calls>>

\* run: get_loaders and the look into the first validation batch, which
\* raises when loader_val is None, and wraps the model when it holds forces
GetLoaders ==
    /\ train.pc = "loaders"
    /\ train' = IF train.cfg.val
                THEN [train EXCEPT !.pc = "engine", !.op = "get_loaders",
                                   !.wrapped = train.cfg.forces]
                ELSE [train EXCEPT !.pc = "TypeError", !.op = "get_loaders"]
    /\ UNCHANGED <<aevVars, ini, conv, fwd, maps, calls>>

\* build_engine: build_optimzer with get_parameters, then the trainable
\* parameters of the loss module are added to the param group
BuildEngine ==
    /\ train.pc = "engine"
    /\ LET rg == ForcedRequiresGrad(train.requires_grad, train.wrapped,
                                    train.cfg)
       IN  train' = [train EXCEPT
                        !.pc = "training", !.op = "build_engine",
                        !.requires_grad = rg,
                        !.opt = GetParameters(rg)
                                  \o (IF rg[LossParam] THEN <<LossParam>>
                                      ELSE << >>)]
    /\ UNCHANGED <<aevVars, ini, conv, fwd, maps, calls>>

\* the gradient scales of the batches
GradSet == {0 - 90, 25, 70}

\* one training iteration, _update
Update(g) ==
    /\ train.pc = "training"
    /\ train.iter < MaxIter
    /\ LET zeroed == ZeroGrad(train.grad, train.opt)
           grads == Backward(zeroed, train.requires_grad, train.data, g)
           clipped == ClipGradValue(grads)
       IN  train' = [train EXCEPT
                        !.op = "_update", !.grad = clipped,
                        !.data = OptimizerStep(train.data, clipped, train.opt),
                        !.iter = @ + 1]
    /\ UNCHANGED <<aevVars, ini, conv, fwd, maps, calls>>

\* mutant of EvalRun: the evaluation steps the optimizer
EvalRun_Steps(t) ==
    [t EXCEPT !.op = "evaluate", !.evals = @ + 1,
              !.data = OptimizerStep(t.data, t.grad, t.opt)]

\* a run of the validator: forward passes under torch.no_grad()
EvalRun(t) ==
    [t EXCEPT !.op = "evaluate", !.evals = @ + 1]

Evaluate ==
    /\ train.pc = "training"
    /\ train.evals < MaxEval
    /\ train' = EvalRun(train)
    /\ UNCHANGED <<aevVars, ini, conv, fwd, maps, calls>>

\* run: trainer.run returns and the state dict is saved
Finish ==
    /\ train.pc = "training"
    /\ train' = [train EXCEPT !.pc = "done", !.op = "save"]
    /\ UNCHANGED <<aevVars, ini, conv, fwd, maps, calls>>

InitTrain ==
    AevIdle /\ ini = IniIdle /\ conv = NoConv /\ fwd = NoFwd /\ train = TrainIdle
    /\ maps = << >> /\ calls = << >>

NextTrain ==
    \/ \E cfg \in TrainCfgSet : BuildModel(cfg)
    \/ LoadWeights
    \/ GetLoaders
    \/ BuildEngine
    \/ \E g \in GradSet : Update(g)
    \/ Evaluate
    \/ Finish

SpecTrain == InitTrain /\ [][NextTrain]_vars

----------------------------------------------------------------------------
(* AEVSV.forward and ConvSV.forward as interleaved calls *)

\* a mapping handed to AEVSV.forward: the neighbor geometry it came with,
\* and whatever else it held; a key that is absent is None
Mapping(nb, charges, gs, u_ij) ==
    [nbrs |-> Some(nb), charges |-> charges, d_ij |-> None, gs |-> gs,
     gv |-> None, u_ij |-> u_ij]

Slot(r, valid) == [r |-> r, d |-> Norm(r), valid |-> valid]

\* a fresh mapping of one neighbor, one with a padding slot that came with
\* other entries, and one that holds results of an earlier call
DataSet ==
    { Mapping(<<Slot(<<250, 0, 0>>, TRUE)>>, None, None, None),
      Mapping(<<Slot(<<150, 200, 0>>, TRUE),
                [r |-> <<0, 0, 0>>, d |-> 500, valid |-> FALSE]>>,
              Some(<<-100, 0>>), None, Some(<<<<1>>, <<2>>, <<3>>>>)),
      Mapping(<<Slot(<<0, 0, 300>>, TRUE), Slot(<<250, 0, 0>>, FALSE)>>,
              None, Some(<<<<7, 7>>>>), None) }

\* ops.calc_distances(data): the distances and displacements of the slots
CalcDistances(data) ==
    [d_ij |-> [m \in 1..Len(Val(data.nbrs)) |-> Val(data.nbrs)[m].d],
     r_ij |-> [m \in 1..Len(Val(data.nbrs)) |-> Val(data.nbrs)[m].r]]

\* the neighbor slots _calc_aev works on: its arguments r_ij and d_ij and
\* the mask it reads from data
SlotsOf(r_ij, d_ij, data) ==
    [m \in 1..Len(d_ij) |->
        [r |-> r_ij[m], d |-> d_ij[m], valid |-> Val(data.nbrs)[m].valid]]

\* mutant of StoreKey: the entry is set in the first mapping
StoreKey_First(ms, id, key, val) ==
    [ms EXCEPT ![1] = [@ EXCEPT ![key] = Some(val)]]

\* data[key] = val on the mapping object id
StoreKey(ms, id, key, val) ==
    [ms EXCEPT ![id] = [@ EXCEPT ![key] = Some(val)]]

\* mutant of StoreOutputs: u_ij is saved too
StoreOutputs_WithU(ms, id, u_ij, gs, gv) ==
    StoreKey(StoreKey(StoreKey(ms, id, "gs", gs), id, "gv", gv),
             id, "u_ij", u_ij)

\* data["gs"], data["gv"] = gs, gv ("for now, do not save u_ij")
StoreOutputs(ms, id, u_ij, gs, gv) ==
    StoreKey(StoreKey(ms, id, "gs", gs), id, "gv", gv)

\* a call frame: the function, the position in it, its arguments (the
\* mapping object data, or the tensors inp), its locals and what it returned
Frame(fn, data, entry, inp) ==
    [fn |-> fn, pc |-> "start", data |-> data, entry |-> entry, inp |-> inp,
     d_ij |-> << >>, r_ij |-> << >>, gs |-> << >>, u_ij |-> << >>,
     gv |-> << >>, avf |-> << >>, ret |-> None]

\* the AEVSV and the ConvSV of the calls
CallAevSet == { NewAEVSV(AevArgs(dual)) : dual \in BOOLEAN }

CallConv ==
    LET y == DrawnPool(PoolFactor, 0, <<1, 1>>)
    IN  NewConvSV(ConvArg(2, 1, FALSE, TRUE, Some(3), Some(1)), 3, 1,
                  <<Transposed(3, y, <<FirstPick(3, y)>>)>>)

CallInputSet == { FwdInput(CallConv, 2, seed, TRUE) : seed \in {1, 2} }

\* AEVSV.forward: calc_distances and data["d_ij"] = d_ij
AevDistances(t) ==
    /\ calls[t].fn = "AEVSV.forward" /\ calls[t].pc = "start"
    /\ LET dr == CalcDistances(maps[calls[t].data])
       IN  /\ calls' = [calls EXCEPT ![t].pc = "scalar",
                                     ![t].d_ij = dr.d_ij, ![t].r_ij = dr.r_ij]
           /\ maps' = StoreKey(maps, calls[t].data, "d_ij", dr.d_ij)
    /\ UNCHANGED <<aevVars, ini, conv, fwd, train>>

\* _calc_aev: fc_ij, gs and u_ij
AevScalar(t) ==
    /\ calls[t].fn = "AEVSV.forward" /\ calls[t].pc = "scalar"
    /\ LET nb == SlotsOf(calls[t].r_ij, calls[t].d_ij, maps[calls[t].data])
       IN  calls' = [calls EXCEPT ![t].pc = "vector",
                                  ![t].gs = CalcGs(aev, nb),
                                  ![t].u_ij = CalcU(nb)]
    /\ UNCHANGED <<aevVars, ini, conv, fwd, train, maps>>

\* _calc_aev: the branch on _dual_basis that gives gv
AevVector(t) ==
    /\ calls[t].fn = "AEVSV.forward" /\ calls[t].pc = "vector"
    /\ LET nb == SlotsOf(calls[t].r_ij, calls[t].d_ij, maps[calls[t].data])
           g == IF aev.dual_basis THEN CalcGsv(aev, nb) ELSE calls[t].gs
       IN  calls' = [calls EXCEPT ![t].pc = "store",
                                  ![t].gv = OuterGv(g, calls[t].u_ij)]
    /\ UNCHANGED <<aevVars, ini, conv, fwd, train, maps>>

\* AEVSV.forward: gs and gv are stored and data is returned
AevReturn(t) ==
    /\ calls[t].fn = "AEVSV.forward" /\ calls[t].pc = "store"
    /\ maps' = StoreOutputs(maps, calls[t].data, calls[t].u_ij, calls[t].gs,
                            calls[t].gv)
    /\ calls' = [calls EXCEPT ![t].pc = "done",
                              ![t].ret = Some(calls[t].data)]
    /\ UNCHANGED <<aevVars, ini, conv, fwd, train>>

\* ConvSV.forward: the scalar einsum and avf.append
ConvScalar(t) ==
    /\ calls[t].fn = "ConvSV.forward" /\ calls[t].pc = "start"
    /\ calls' = [calls EXCEPT
                    ![t].pc = IF conv.do_vector THEN "vector" ELSE "cat",
                    ![t].avf = <<Flatten(ScalarPath(conv, calls[t].inp.a,
                                                    calls[t].inp.gs))>>]
    /\ UNCHANGED <<aevVars, ini, conv, fwd, train, maps>>

\* ConvSV.forward: the vector einsum with self.agh and avf.append
ConvVector(t) ==
    /\ calls[t].fn = "ConvSV.forward" /\ calls[t].pc = "vector"
    /\ calls' = [calls EXCEPT
                    ![t].pc = "cat",
                    ![t].avf = Append(@, Flatten(VectorPath(conv,
                                  calls[t].inp.a, Val(calls[t].inp.gv))))]
    /\ UNCHANGED <<aevVars, ini, conv, fwd, train, maps>>

\* ConvSV.forward: return torch.cat(avf, dim=-1)
ConvReturn(t) ==
    /\ calls[t].fn = "ConvSV.forward" /\ calls[t].pc = "cat"
    /\ calls' = [calls EXCEPT
                    ![t].pc = "done",
                    ![t].ret = Some(IF Len(calls[t].avf) = 1
                                    THEN calls[t].avf[1]
                                    ELSE calls[t].avf[1] \o calls[t].avf[2])]
    /\ UNCHANGED <<aevVars, ini, conv, fwd, train, maps>>

\* two AEVSV.forward calls on two mapping objects and one ConvSV.forward
\* call, all on the same two module instances
InitCalls ==
    /\ aev \in CallAevSet
    /\ ctorArgs = AevArgs(aev.dual_basis) /\ ctorErr = ""
    /\ nbrs = << >> /\ out = [called |-> FALSE]
    /\ ini = IniIdle /\ conv = CallConv /\ fwd = NoFwd /\ train = TrainIdle
    /\ maps \in [1..2 -> DataSet]
    /\ \E inp \in CallInputSet :
          calls = << Frame("AEVSV.forward", 1, maps[1], << >>),
                     Frame("AEVSV.forward", 2, maps[2], << >>),
                     Frame("ConvSV.forward", 0, << >>, inp) >>

NextCalls ==
    \/ \E t \in 1..Len(calls) : AevDistances(t)
    \/ \E t \in 1..Len(calls) : AevScalar(t)
    \/ \E t \in 1..Len(calls) : AevVector(t)
    \/ \E t \in 1..Len(calls) : AevReturn(t)
    \/ \E t \in 1..Len(calls) : ConvScalar(t)
    \/ \E t \in 1..Len(calls) : ConvVector(t)
    \/ \E t \in 1..Len(calls) : ConvReturn(t)

SpecCalls == InitCalls /\ [][NextCalls]_vars

----------------------------------------------------------------------------
(* Claims about ConvSV *)

\* C6: in both feature layouts the tensor forward returns has last dimension
\* C*S + C*K with do_vector and C*S without, which is output_size().
C6_OutputWidth ==
    (fwd.called /\ fwd.err = "") =>
        LET C == ini.args.nchannel
            S == ini.args.nshifts_s
            K == conv.ncomb_v
        IN  /\ Len(fwd.result) = IF conv.do_vector THEN C * S + C * K ELSE C * S
            /\ Len(fwd.result) = OutputSize(conv)
            /\ ~(IsNone(ini.args.ncomb_v) \/ Val(ini.args.ncomb_v) = 0) =>
                  K = Val(ini.args.ncomb_v)

\* a forward call that returned, with the vector path, two channels, the
\* neighbor-resolved layout or not, and ncomb_v different from nshifts_v
C6_Witness ==
    /\ fwd.called /\ fwd.err = ""
    /\ conv.do_vector /\ conv.nchannel = 2
    /\ conv.ncomb_v # conv.nshifts_v

\* the selection sel out of the pool y is the one of the max-min procedure
MaxMinSelection(n, y, sel) ==
    /\ \A k \in 1..Len(y) : SumDist(n, y)[k] <= SumDist(n, y)[sel[1]]
    /\ \A j \in 2..Len(sel) :
          LET prev == SubSeq(sel, 1, j - 1)
              chosen == { prev[t] : t \in 1..Len(prev) }
              md == MinDist(n, y, prev)
          IN  /\ sel[j] \notin chosen
              /\ \A c \in (1..Len(y)) \ chosen : md[c] <= md[sel[j]]

\* C7: the first selected candidate has the largest total distance to the
\* pool, and every later one maximizes, among the candidates not yet
\* selected, its minimum distance to the selected ones, whichever pool
\* indices were selected before.
C7_MaxMinSelection ==
    /\ ini.pc = "select" => MaxMinSelection(ini.n, ini.y, ini.idx)
    /\ \A c \in 1..Len(ini.picks) :
          MaxMinSelection(ini.n, ini.pools[c], ini.picks[c])

\* two vectors of one length are collinear: equal, or one a multiple of the
\* other
Collinear(u, v) ==
    \A i \in 1..Len(u) : \A k \in 1..Len(u) : u[i] * v[k] = u[k] * v[i]

\* agh[c, :, h]
Column(agh, c, h) == [g \in 1..Len(agh[c]) |-> agh[c][g][h]]

\* no two candidates of the pool y coincide
PoolDistinct(n, y) ==
    \A i \in 1..Len(y) : \A k \in 1..Len(y) :
        i # k => Cand(n, y[i]) # Cand(n, y[k])

\* C8 as claimed: after construction no two directions agh[c, :, h1] and
\* agh[c, :, h2], h1 # h2, of a channel are collinear.
C8_NoCollinearDirections ==
    conv.exists =>
        \A c \in 1..conv.nchannel :
            \A h1 \in 1..conv.ncomb_v : \A h2 \in 1..conv.ncomb_v :
                h1 # h2 => ~Collinear(Column(conv.agh, c, h1),
                                      Column(conv.agh, c, h2))

\* C8 as amended: for a pool of pairwise different candidates the selection
\* of a channel raises nothing and its directions are pairwise different
\* vectors.
C8_DistinctDirections ==
    /\ ini.pc = "AssertionError" => ~PoolDistinct(ini.n, ini.y)
    /\ conv.exists =>
          \A c \in 1..conv.nchannel : PoolDistinct(ini.n, ini.pools[c]) =>
              \A h1 \in 1..conv.ncomb_v : \A h2 \in 1..conv.ncomb_v :
                  h1 # h2 => Column(conv.agh, c, h1) # Column(conv.agh, c, h2)

\* a constructed ConvSV with three directions per channel selected from a
\* pool of pairwise different candidates whose first pick was the last one
C8_Witness ==
    /\ conv.exists /\ conv.ncomb_v = 3
    /\ PoolDistinct(ini.n, ini.pools[1])
    /\ ini.picks[1][1] = Len(ini.pools[1])

----------------------------------------------------------------------------
(* Claims about the parameters in a training run *)

BasisParams == { i \in 1..NModel : ModuleParams[i][1] = "aev" }
AghParam == CHOOSE i \in 1..NModel : ModuleParams[i] = <<"conv", "agh">>

InOptimizer(i) == \E k \in 1..Len(train.opt) : train.opt[k] = i

\* some force_train pattern matches the name of parameter i and no
\* force_notrain pattern does
ForcedTrainable(i) ==
    /\ AnyMatch(train.cfg.force_train, ParamName(train.wrapped, i))
    /\ ~AnyMatch(train.cfg.force_notrain, ParamName(train.wrapped, i))

\* C9 as claimed: through forward calls and training iterations the basis
\* parameters keep their values and are never handed to the optimizer,
\* whatever the force_train and force_notrain patterns.
C9_BasisImmutable ==
    /\ [](\A i \in BasisParams : ~InOptimizer(i))
    /\ [][train.pc = "training" =>
            \A i \in BasisParams : train'.data[i] = train.data[i]]_vars

\* C9 as amended: a basis parameter is handed to the optimizer exactly when
\* a force_train pattern matches its name and no force_notrain pattern does,
\* and forward calls and training iterations change only the basis
\* parameters the optimizer holds, in the optimizer's step.
C9_BasisFixedUnlessForced ==
    /\ [](train.pc \in {"training", "done"} =>
            \A i \in BasisParams : InOptimizer(i) <=> ForcedTrainable(i))
    /\ [](train.pc \notin {"training", "done"} =>
            \A i \in BasisParams : ~InOptimizer(i))
    /\ [][train.pc = "training" =>
            \A i \in BasisParams :
                train'.data[i] # train.data[i] =>
                    InOptimizer(i) /\ train'.op = "_update"]_vars

\* training iterations and an evaluation have run under a force_train
\* pattern that names no basis parameter; agh moved, the basis did not
C9_Witness ==
    /\ train.pc = "training" /\ train.iter >= 2 /\ train.evals >= 1
    /\ train.cfg.force_train # << >> /\ IsNone(train.cfg.load)
    /\ \A i \in BasisParams :
          ~InOptimizer(i) /\ train.data[i] = BuiltData(train.cfg.dual)[i]
    /\ train.data[AghParam] # BuiltAgh

\* C10 as claimed: agh is written once, at construction, and afterwards
\* changes only in an optimizer step, not in weight loading, forward passes
\* or evaluation.
C10_AghOnlyOptimizer ==
    [][IF train.pc = "idle" THEN train'.data[AghParam] = BuiltAgh
       ELSE train'.data[AghParam] # train.data[AghParam] =>
               train'.op = "_update" /\ InOptimizer(AghParam)]_vars

\* C10 as amended: agh is written once at construction, and afterwards
\* changes only when load_state_dict copies a loaded tensor into it or in an
\* optimizer step of a training iteration.
C10_AghLoadOrOptimizer ==
    [][IF train.pc = "idle" THEN train'.data[AghParam] = BuiltAgh
       ELSE train'.data[AghParam] # train.data[AghParam] =>
               \/ train'.op = "load_state_dict"
               \/ train'.op = "_update" /\ InOptimizer(AghParam)]_vars

\* weights were loaded into agh, and training iterations and an evaluation
\* followed in which the optimizer moved it
C10_Witness ==
    /\ train.pc = "done" /\ train.iter >= 2 /\ train.evals >= 1
    /\ train.cfg.load = Some(SdFull)
    /\ train.data[AghParam] # BuiltAgh
    /\ train.data[AghParam] # SdFull[AghParam].value

----------------------------------------------------------------------------
(* Claims about forward calls *)

\* the mapping an AEVSV.forward call that runs alone leaves
AevAlone(self, data) ==
    LET dr == CalcDistances(data)
        res == CalcAevResult(self, Val(data.nbrs))
    IN  [data EXCEPT !.d_ij = Some(dr.d_ij), !.gs = Some(res.gs),
                     !.gv = Some(res.gv)]

\* C11: in every interleaving of forward calls of one AEVSV and one ConvSV on
\* disjoint inputs each call gives the result it gives alone, no step writes
\* the modules, and a step of a call changes no mapping but the one the call
\* was given.
C11_CallsIsolated ==
    /\ [](\A t \in 1..Len(calls) : calls[t].pc = "done" =>
            IF calls[t].fn = "AEVSV.forward"
            THEN maps[calls[t].data] = AevAlone(aev, calls[t].entry)
            ELSE Val(calls[t].ret)
                   = ForwardResult(conv, calls[t].inp.a, calls[t].inp.gs,
                                   calls[t].inp.gv).result)
    /\ [][/\ aev' = aev /\ conv' = conv
          /\ \A id \in 1..Len(maps) : maps'[id] # maps[id] =>
                \E t \in 1..Len(calls) :
                    calls'[t] # calls[t] /\ calls[t].data = id]_vars

\* all three calls returned, the two AEVSV calls on different mappings in
\* dual-basis mode
C11_Witness ==
    /\ calls # << >>
    /\ \A t \in 1..Len(calls) : calls[t].pc = "done"
    /\ aev.dual_basis
    /\ calls[1].entry # calls[2].entry

\* C20: AEVSV.forward returns the mapping object it was given, in which
\* exactly d_ij, gs and gv have been set to the computed values; u_ij is
\* stored under no key and every other entry is as it was on entry.
C20_ForwardSetsThreeKeys ==
    \A t \in 1..Len(calls) :
        (calls[t].fn = "AEVSV.forward" /\ calls[t].pc = "done") =>
            LET now == maps[calls[t].data]
                was == calls[t].entry
            IN  /\ calls[t].ret = Some(calls[t].data)
                /\ now.d_ij = Some(calls[t].d_ij)
                /\ now.gs = Some(calls[t].gs)
                /\ now.gv = Some(calls[t].gv)
                /\ now.u_ij = was.u_ij
                /\ now.u_ij # Some(calls[t].u_ij)
                /\ now.nbrs = was.nbrs
                /\ now.charges = was.charges

\* a call returned on a mapping that came with other entries, one of them
\* under the key u_ij, and a call on a mapping that already held gs
C20_Witness ==
    /\ calls # << >>
    /\ calls[1].pc = "done" /\ calls[2].pc = "done"
    /\ ~IsNone(calls[1].entry.charges) /\ ~IsNone(calls[1].entry.u_ij)
    /\ ~IsNone(calls[2].entry.gs)

----------------------------------------------------------------------------
(* Claims about AEVSV construction *)

ScalarBasis(self) == <<self.rc_s, self.eta_s, self.shifts_s>>
VectorBasis(self) == <<self.rc_v, self.eta_v, self.shifts_v>>

EtaOf(nshifts, rc, rmin) ==
    Div(Scale * (nshifts * Scale) * (nshifts * Scale),
        (rc - rmin) * (rc - rmin))

ShiftsWellFormed(shifts, n, rmin, rc) ==
    /\ Len(shifts) = n
    /\ \A k \in 1..Len(shifts) : rmin <= shifts[k] /\ shifts[k] < rc
    /\ \A k \in 1..(Len(shifts) - 1) : shifts[k] < shifts[k + 1]

\* C14: each stored shift sequence is an ascending sequence of exactly
\* nshifts centers in [rmin, rc) of its basis, auto-generated or supplied,
\* and a supplied list is stored as it is.
C14_ShiftsWellFormed ==
    aev.exists =>
        LET a == ctorArgs
        IN  /\ ShiftsWellFormed(aev.shifts_s, a.nshifts_s, a.rmin, aev.rc_s)
            /\ ShiftsWellFormed(aev.shifts_v,
                                IF aev.dual_basis THEN Val(a.nshifts_v)
                                ELSE a.nshifts_s,
                                a.rmin, aev.rc_v)
            /\ ~IsNone(a.shifts_s) => aev.shifts_s = Val(a.shifts_s)
            /\ (aev.dual_basis /\ ~IsNone(a.shifts_v)) =>
                  aev.shifts_v = Val(a.shifts_v)

----------------------------------------------------------------------------
(* Claims about ConvSV.forward and the shape of agh *)

\* what forward returns when gv is replaced by R applied along its spatial
\* axis
ForwardRotated(R) ==
    ForwardResult(conv, fwd.a, fwd.gs, Some(RotGv(R, Val(fwd.gv))))

\* two feature vectors of one length differ by at most tol in every entry
Within(x, y, tol) ==
    /\ Len(x) = Len(y)
    /\ \A i \in 1..Len(x) : Abs(x[i] - y[i]) <= tol

\* forward returned for a gv that was given
ForwardReturnedWithGv == fwd.called /\ fwd.err = "" /\ ~IsNone(fwd.gv)

FeatureTol == 20

Resolved(a, nshifts) ==
    [g \in 1..nshifts |-> [c \in 1..Len(a[1]) |->
        [m \in 1..Len(a) |-> a[m][c]]]]

\* forward of the same module in the neighbor-resolved layout, on the
\* features of the last call resolved over the scalar shifts
ForwardResolved ==
    ForwardResult([conv EXCEPT !.d2features = TRUE],
                  Resolved(fwd.a, conv.nshifts_s), fwd.gs, fwd.gv)

FillSlots == { m \in 1..Len(nbrs) : nbrs[m].d = aev.dmat_fill }

\* C18: a constructed AEVSV has dmat_fill = rc_s, at or above the scalar and
\* the vector cutoff in use; a slot at the fill distance has cutoff factor
\* exactly 0 in both bases, so its gs and gv are 0, in single and dual mode.
C18_FillDistanceGatesToZero ==
    aev.exists =>
        /\ aev.dmat_fill = ctorArgs.rc_s
        /\ aev.dmat_fill >= aev.rc_s /\ aev.dmat_fill >= aev.rc_v
        /\ CosineCutoff(aev.dmat_fill, aev.rc_s) = 0
        /\ CosineCutoff(aev.dmat_fill, aev.rc_v) = 0
        /\ out.called =>
              \A m \in FillSlots :
                  /\ FcScalar(aev, nbrs)[m] = 0
                  /\ \A k \in 1..Len(out.gs) : out.gs[k][m] = 0
                  /\ \A k \in 1..Len(out.gv) :
                        \A a \in 1..3 : out.gv[k][a][m] = 0

\* a dual basis call with rc_v below rc_s that holds a slot at the fill
\* distance next to a valid slot whose gs and gv are not zero
C18_Witness ==
    /\ out.called /\ aev.dual_basis /\ aev.rc_v < aev.rc_s
    /\ FillSlots # {}
    /\ \E m \in 1..Len(nbrs) : /\ nbrs[m].valid
                                /\ out.gs[1][m] # 0
                                /\ \E a \in 1..3 : out.gv[1][a][m] # 0

\* C19: for every candidate pool, with coinciding or equidistant candidates
\* too, every greedy step selects a candidate that was not selected before:
\* the assertion never fails and the rows returned are pairwise distinct
\* pool entries.
C19_AssertionNeverFails ==
    /\ ini.pc # "AssertionError"
    /\ \A c \in 1..Len(ini.picks) :
          \A h1 \in 1..Len(ini.picks[c]) : \A h2 \in 1..Len(ini.picks[c]) :
              h1 # h2 => ini.picks[c][h1] # ini.picks[c][h2]

----------------------------------------------------------------------------
(* ConvSV.forward: the channels *)

\* the ConvSV(...) calls that build more than one channel
ChannelArgSet == { a \in ConvArgSet : a.nchannel > 1 }

\* the runs that construct a ConvSV of several channels and call forward
NextChannels ==
    \/ \E a \in ChannelArgSet : ConvConstruct(a)
    \/ \E y \in PoolSet(ini.m) : InitAhgOneBegin(y)
    \/ InitAhgOneStep
    \/ InitAhgOneReturn
    \/ \E inp \in FwdInputSet(conv) : Forward(inp)

SpecChannels == InitConv /\ [][NextChannels]_vars

\* a change of one tensor entry: kept, negated, zeroed or shifted
Alter(k, x) ==
    IF k = 0 THEN x ELSE IF k = 1 THEN 0 - x ELSE IF k = 2 THEN 0 ELSE x + 50

\* the features a with the entries of every channel but c changed
AlterFeatures(self, a, c, k) ==
    IF self.d2features
    THEN [g \in 1..Len(a) |-> [c2 \in 1..Len(a[g]) |->
            [m \in 1..Len(a[g][c2]) |->
                IF c2 = c THEN a[g][c2][m] ELSE Alter(k, a[g][c2][m])]]]
    ELSE [m \in 1..Len(a) |-> [c2 \in 1..Len(a[m]) |->
            IF c2 = c THEN a[m][c2] ELSE Alter(k, a[m][c2])]]

\* agh with the entries of every slab but agh[c] changed
AlterAgh(agh, c, k) ==
    [c2 \in 1..Len(agh) |-> [g \in 1..Len(agh[c2]) |->
        [h \in 1..Len(agh[c2][g]) |->
            IF c2 = c THEN agh[c2][g][h] ELSE Alter(k, agh[c2][g][h])]]]

\* the changes made to the features and to agh in the second run
AlterSet == { <<1, 0>>, <<0, 3>>, <<2, 3>> }

\* forward of the second run: the last call with the other channels changed
ForwardAltered(c, k) ==
    ForwardResult([conv EXCEPT !.agh = AlterAgh(conv.agh, c, k[2])],
                  AlterFeatures(conv, fwd.a, c, k[1]), fwd.gs, fwd.gv)

\* the entries of a returned feature vector that belong to channel c
ChannelEntries(self, result, c) ==
    SubSeq(result, (c - 1) * self.nshifts_s + 1, c * self.nshifts_s)
        \o (IF self.do_vector
            THEN SubSeq(result,
                        self.nchannel * self.nshifts_s
                            + (c - 1) * self.ncomb_v + 1,
                        self.nchannel * self.nshifts_s + c * self.ncomb_v)
            ELSE << >>)

\* C21: the channels do not mix in ConvSV.forward: two runs that differ only
\* in the features of the channels other than c or in agh[c2] for c2 # c
\* return identical scalar and vector entries for channel c.
C21_ChannelsDoNotMix ==
    (fwd.called /\ fwd.err = "" /\ conv.nchannel > 1) =>
        \A c \in 1..conv.nchannel : \A k \in AlterSet :
            LET alt == ForwardAltered(c, k)
            IN  /\ alt.err = ""
                /\ Len(alt.result) = Len(fwd.result)
                /\ ChannelEntries(conv, alt.result, c)
                     = ChannelEntries(conv, fwd.result, c)

\* a call on two channels with the vector path where a change of the other
\* channel's features and one of its agh slab each change the returned vector
C21_Witness ==
    /\ fwd.called /\ fwd.err = "" /\ conv.nchannel > 1 /\ conv.do_vector
    /\ \A k \in {<<1, 0>>, <<2, 3>>} : ForwardAltered(1, k).result # fwd.result
    /\ ForwardAltered(2, <<0, 3>>).result # fwd.result
    /\ \E i \in 1..Len(fwd.result) : fwd.result[i] # 0

----------------------------------------------------------------------------
(* train_mp.py: the training iteration and the run without validation data *)

\* the gradient of parameter i that optimizer.step consumed lies within the
\* clip value
GradWithinClip(i) ==
    IsNone(train.grad[i])
        \/ \A k \in 1..Len(Val(train.grad[i])) :
              Abs(Val(train.grad[i])[k]) <= ClipValue

\* C22: an iteration runs zero_grad, forward, loss, backward, gradient
\* clipping and one optimizer.step in this order, and every gradient element
\* the step consumes, for every parameter of the optimizer's param groups,
\* the trainable parameters of the loss module included, lies in [-0.4, 0.4].
C22_StepGradientsClipped ==
    /\ [](train.op = "_update" =>
            \A k \in 1..Len(train.opt) : GradWithinClip(train.opt[k]))
    /\ [][(train.pc = "training" /\ train'.iter # train.iter) =>
            /\ train'.iter = train.iter + 1
            /\ train'.data = OptimizerStep(train.data, train'.grad, train.opt)
            /\ \E g \in GradSet :
                  train'.grad
                    = ClipGradValue(Backward(ZeroGrad(train.grad, train.opt),
                                             train.requires_grad,
                                             train.data, g))]_vars

\* run() got past get_loaders and the look into the first validation batch
PastLoaders == train.pc \notin {"idle", "load", "loaders"}

\* C23: without a validation dataset (loader_val = None) run() still builds
\* the engine and reaches trainer.run without error, for every training
\* configuration.
C23_RunsWithoutValidation ==
    (PastLoaders /\ ~train.cfg.val) =>
        train.pc \in {"engine", "training", "done"}
====
